---- MODULE Spec2Model ----
(***************************************************************************)
(* rimless: promise-based RPC over postMessage.                            *)
(*                                                                         *)
(* One host window "H" embeds the iframes F1 and F2, whose documents run   *)
(* in the windows G1 and G2.  The host side is host.ts (findOrCreateHostFor*)
(* connect, serve, makeConnectionNegotiator), the shared RPC layer is      *)
(* rpc.ts (registerLocalMethods, createRPC, registerRemoteMethods) and the *)
(* guest side is guest.ts (connect).                                       *)
(***************************************************************************)
EXTENDS Integers, Sequences, FiniteSets, Bags, TLC

\* ------------------------------------------------------------------ bounds
\* connections one run negotiates (uuids minted by the host)
MaxConn == 2
\* calls of the public connect(guest, schema)
MaxConnect == 2
\* next() requests a consumer keeps outstanding on serve().connections
MaxPulls == 2
\* invocations of remote proxies
MaxCalls == 2

\* interval ticks of one guest connect()
MaxTicks == 6
MaxDirect == 2

\* --------------------------------------------------------- protocol values
HANDSHAKE_REQUEST == "ANCHOR/HANDSHAKE_REQUEST"
HANDSHAKE_REPLY == "ANCHOR/HANDSHAKE_REPLY"
RPC_REQUEST == "ANCHOR/RPC_REQUEST"
RPC_RESOLVE == "ANCHOR/RPC_RESOLVE"
RPC_REJECT == "ANCHOR/RPC_REJECT"

\* the host window, the only messaging target of connect(iframe) and of
\* serve(window)
HostWindow == "H"
Targets == {HostWindow}
\* iframe elements handed to connect(); Null is the guest key of serve()
Iframes == {"F1", "F2"}
Null == "null"
GuestKeys == Iframes \cup {Null}
\* windows of the guests' documents and the origins they post from
Windows == {"G1", "G2"}
Origins == {"o1", "o2"}
\* the (source, origin) pairs handshake requests arrive with: F1's document,
\* F2's document, and F1's window showing a document of F2's origin
RequestEvents == {<<"G1", "o1">>, <<"G2", "o2">>, <<"G1", "o2">>}
\* iframe.contentWindow
contentWindow(iframe) == IF iframe = "F1" THEN "G1" ELSE "G2"
\* getOriginFromURL(iframe.getAttribute('src'))
srcOrigin(iframe) == IF iframe = "F1" THEN "o1" ELSE "o2"

\* a property of a message event that is absent or falsy: no source, the
\* origin "", data that is 0 or ""
Missing == "missing"
\* the timers of guest.ts, in ms
REQUEST_INTERVAL == 600
TIMEOUT_INTERVAL == 3000

\* guest.ts connect() before it is called
\* the guest of a callback that does not call host.connect
NoGuest == "none"

NoAttempt ==
  [listening |-> FALSE, connected |-> FALSE, interval |-> FALSE,
   timeout |-> FALSE, promise |-> "none", connection |-> 0]

VARIABLES
  hosts,      \* the process-wide map: target -> record (0: no record)
  records,    \* every host record ever created, by creation index
  endpoints,  \* every connection wired in some context, by creation index
  minted,     \* connection identifiers minted so far
  callers,    \* the promises returned by the public connect()
  serves,     \* the handles returned by serve(), with their generator
  msgs,       \* messages posted and not yet delivered
  calls,      \* every invocation of a remote proxy, by call identifier
  log,        \* history: the bag of invocations of locally bound functions
  guests,     \* guest.ts connect(), one attempt per guest window
  reclosed,   \* history: the sides where close() was called on a closed handle
  elapsed,    \* per guest window: ms from connect() to its latest interval tick
  errors,     \* history: the errors listeners have raised
  direct      \* the callbacks handed to host.connect itself

vars ==
  <<hosts, records, endpoints, minted, callers, serves, msgs, calls, log,
    guests, reclosed, elapsed, errors, direct>>

Range(s) == {s[i] : i \in DOMAIN s}

RECURSIVE Without(_, _)
\* the sequence s without the elements equal to x (Set.delete keeps the
\* insertion order of the rest)
Without(s, x) ==
  IF s = <<>> THEN <<>>
  ELSE IF Head(s) = x THEN Without(Tail(s), x)
  ELSE <<Head(s)>> \o Without(Tail(s), x)

RECURSIVE Added(_, _)
\* the elements of the sequence s that are not in the set before, in order
\* (what a Set or a Map has gained while an iterator runs over it)
Added(s, before) ==
  IF s = <<>> THEN <<>>
  ELSE IF Head(s) \in before THEN Added(Tail(s), before)
  ELSE <<Head(s)>> \o Added(Tail(s), before)

Max(a, b) == IF a >= b THEN a ELSE b

\* the mutable state one handler threads through its calls
State ==
  [hosts |-> hosts, records |-> records, endpoints |-> endpoints,
   minted |-> minted, callers |-> callers, serves |-> serves, msgs |-> msgs,
   calls |-> calls, log |-> log, guests |-> guests, reclosed |-> reclosed,
   elapsed |-> elapsed, errors |-> errors, direct |-> direct]

Commit(st) ==
  /\ hosts' = st.hosts
  /\ records' = st.records
  /\ endpoints' = st.endpoints
  /\ minted' = st.minted
  /\ callers' = st.callers
  /\ serves' = st.serves
  /\ msgs' = st.msgs
  /\ calls' = st.calls
  /\ log' = st.log
  /\ guests' = st.guests
  /\ reclosed' = st.reclosed
  /\ elapsed' = st.elapsed
  /\ errors' = st.errors
  /\ direct' = st.direct

\* ------------------------------------------------------------- JS values
\* A value is a record [t, n]: a number n, null, undefined, NaN, or the
\* serialized form of an Error (n tells which).
Num(n) == [t |-> "num", n |-> n]
NullV == [t |-> "null", n |-> 0]
Undefined == [t |-> "undefined", n |-> 0]
NaN == [t |-> "nan", n |-> 0]
\* what JSON.stringify(error, Object.getOwnPropertyNames(error)) keeps of an
\* Error: its message and stack
ErrorV(n) == [t |-> "error", n |-> n]
\* the Error a schema function throws, and JSON.parse's SyntaxError
ThrownError == ErrorV(1)
SyntaxError == ErrorV(2)

\* method paths extractMethods() finds in the host's and the guests' schema
HostMethods == {"add", "noop", "boom"}
GuestMethods == {"add"}
HostOrigin == "oh"

\* a message payload; the fields an action does not carry hold these values
Payload ==
  [action |-> "", connectionID |-> 0, callID |-> 0, callName |-> "",
   args |-> <<>>, result |-> NullV, error |-> NullV, methods |-> {}]

\* ------------------------------------------------------------ host record
\* findOrCreateHostFor: the record of the target, created and subscribed
\* when the map holds none
findOrCreateHostFor(st, target) ==
  IF st.hosts[target] # 0 THEN st
  ELSE [st EXCEPT
          !.records = Append(@,
            [target |-> target, pendingConnections |-> 0,
             guestOrder |-> <<>>,
             connectionListeners |-> [g \in GuestKeys |-> <<>>],
             connections |-> {}, subscribed |-> TRUE]),
          !.hosts[target] = Len(st.records) + 1]

\* the listener is registered and the count is left as it was
hostConnect_NotCounted(st, r, guest, owner) ==
  [st EXCEPT
     !.records[r].guestOrder =
        IF guest \in Range(@) THEN @ ELSE Append(@, guest),
     !.records[r].connectionListeners[guest] = Append(@, owner)]

\* host.connect: one more pending handshake for the guest
hostConnect(st, r, guest, owner) ==
  [st EXCEPT
     !.records[r].pendingConnections = @ + 1,
     !.records[r].guestOrder =
        IF guest \in Range(@) THEN @ ELSE Append(@, guest),
     !.records[r].connectionListeners[guest] = Append(@, owner)]

\* either the origin or the source is enough
isValidTarget_Either(iframe, event) ==
  event.origin = srcOrigin(iframe) \/ event.source = contentWindow(iframe)

\* isValidTarget(iframe, event)
isValidTarget(iframe, event) ==
  LET hasProperOrigin == event.origin = srcOrigin(iframe)
      hasProperSource == event.source = contentWindow(iframe)
  IN  hasProperOrigin /\ hasProperSource

\* an identifier taken from the number of connections now open
NewConnectionID_FromCount(st) ==
  Cardinality({e \in DOMAIN st.endpoints :
                 st.endpoints[e].side = "host" /\ st.endpoints[e].local}) + 1

\* uuidv4() for a connection: an identifier no earlier call returned
NewConnectionID(st) == st.minted + 1

\* unregisterRemote releases the response listeners of every connection of
\* the context
close_AllResponseListeners(st, e) ==
  LET ep == st.endpoints[e]
      s1 == [st EXCEPT
               !.calls = [c \in DOMAIN st.calls |->
                            IF st.endpoints[st.calls[c].ep].ctx = ep.ctx
                              THEN [st.calls[c] EXCEPT !.listening = FALSE]
                              ELSE st.calls[c]],
               !.endpoints[e].local = FALSE]
  IN  IF ep.side = "host"
        THEN [s1 EXCEPT !.records[ep.rec].connections =
                          {x \in @ : x.id # ep.id}]
        ELSE [s1 EXCEPT !.guests[ep.ctx].listening = FALSE]

\* a second close() empties the record's connection map
close_DropsAnother(st, e) ==
  LET ep == st.endpoints[e]
      s1 == [st EXCEPT
               !.calls = [c \in DOMAIN st.calls |->
                            IF st.calls[c].ep = e
                              THEN [st.calls[c] EXCEPT !.listening = FALSE]
                              ELSE st.calls[c]],
               !.endpoints[e].local = FALSE]
  IN  IF ep.side = "host"
        THEN [s1 EXCEPT !.records[ep.rec].connections =
                          IF ep.local THEN {x \in @ : x.id # ep.id} ELSE {}]
        ELSE [s1 EXCEPT !.guests[ep.ctx].listening = FALSE]

\* the connection's close(): unregisterRemote, unregisterLocal, and on the
\* host the delete from the record's connection map; on the guest the
\* handshake listener is removed as well
close(st, e) ==
  LET ep == st.endpoints[e]
      s1 == [st EXCEPT
               !.calls = [c \in DOMAIN st.calls |->
                            IF st.calls[c].ep = e
                              THEN [st.calls[c] EXCEPT !.listening = FALSE]
                              ELSE st.calls[c]],
               !.endpoints[e].local = FALSE]
  IN  IF ep.side = "host"
        THEN [s1 EXCEPT !.records[ep.rec].connections =
                          {x \in @ : x.id # ep.id}]
        ELSE [s1 EXCEPT !.guests[ep.ctx].listening = FALSE]

RECURSIVE closeAll(_, _)
closeAll(st, es) ==
  IF es = {} THEN st
  ELSE LET e == CHOOSE x \in es : \A y \in es : x <= y
       IN  closeAll(close(st, e), es \ {e})

\* host.disconnect(connectionId): close the connection stored under the
\* identifier, if there is one
disconnect(st, r, connectionId) ==
  LET found == {x \in st.records[r].connections : x.id = connectionId}
  IN  IF found = {} THEN st
      ELSE close(st, (CHOOSE x \in found : TRUE).ep)

\* host.stop({shouldCleanupConnections})
stop(st, r, shouldCleanupConnections) ==
  LET s1 == IF shouldCleanupConnections
              THEN closeAll(st, {x.ep : x \in st.records[r].connections})
              ELSE st
  IN  [s1 EXCEPT !.records[r].subscribed = FALSE,
                 !.hosts[st.records[r].target] = 0]

\* negotiateConnection(schema, event) of the negotiator made for guest
negotiateConnection(st, r, guest, event) ==
  LET connectionID == NewConnectionID(st)
      e == Len(st.endpoints) + 1
      payload == [Payload EXCEPT !.action = HANDSHAKE_REPLY,
                                 !.connectionID = connectionID,
                                 !.methods = HostMethods]
  IN  [st EXCEPT
         !.minted = @ + 1,
         !.endpoints = Append(@,
           [side |-> "host", ctx |-> HostWindow, id |-> connectionID,
            rec |-> r, guest |-> guest, source |-> event.source,
            origin |-> event.origin, event |-> event.no,
            remote |-> event.data.methods, local |-> TRUE]),
         !.msgs = @ \cup {[to |-> event.source, source |-> HostWindow,
                           origin |-> HostOrigin, data |-> payload]},
         !.records[r].connections =
            {x \in @ : x.id # connectionID}
              \cup {[id |-> connectionID, ep |-> e]}]

\* a callback handed to host.connect itself: it keeps the connection and, if
\* it is written to, calls host.connect(next, schema, ...) before returning,
\* with a callback that only keeps the connection
reentrant(st, r, owner, e) ==
  LET next == st.direct[owner.n].next
      s1 == [st EXCEPT !.direct[owner.n].connection = e]
  IN  IF next = NoGuest THEN s1
      ELSE [hostConnect(s1, r, next,
                        [kind |-> "direct", n |-> Len(st.direct) + 1])
              EXCEPT !.direct = Append(@, [host |-> r, guest |-> next,
                                           next |-> NoGuest,
                                           connection |-> 0])]

\* connect()'s callback stops the record whatever is still pending
callback_AlwaysStops(st, r, owner, e) ==
  IF owner.kind = "direct" THEN reentrant(st, r, owner, e)
  ELSE IF owner.kind = "connect"
    THEN [stop(st, r, FALSE) EXCEPT !.callers[owner.n].connection = e]
    ELSE [st EXCEPT !.serves[owner.n].pc = "resolved",
                    !.serves[owner.n].value = e,
                    !.serves[owner.n].racing =
                       \E c \in DOMAIN st.callers :
                         /\ st.callers[c].connection # 0
                         /\ st.endpoints[st.callers[c].connection].event
                              = st.endpoints[e].event]

\* the callback host.connect was given: the public connect()'s, or the
\* resolve of the promise serve()'s generator awaits.  The generator resumes
\* in a later microtask; racing tells whether a connect() promise was
\* resolved earlier in the same dispatch, whose continuation (application
\* code) then runs before the generator does
callback(st, r, owner, e) ==
  IF owner.kind = "direct" THEN reentrant(st, r, owner, e)
  ELSE IF owner.kind = "connect"
    THEN LET s1 == IF st.records[r].pendingConnections = 0
                     THEN stop(st, r, FALSE)
                     ELSE st
         IN  [s1 EXCEPT !.callers[owner.n].connection = e]
    ELSE [st EXCEPT !.serves[owner.n].pc = "resolved",
                    !.serves[owner.n].value = e,
                    !.serves[owner.n].racing =
                       \E c \in DOMAIN st.callers :
                         /\ st.callers[c].connection # 0
                         /\ st.endpoints[st.callers[c].connection].event
                              = st.endpoints[e].event]

\* the listener stays registered after it has run
listener_NotRemoved(st, r, guest, owner, event) ==
  LET s1 == negotiateConnection(st, r, guest, event)
      e == Len(s1.endpoints)
      s2 == [s1 EXCEPT !.records[r].pendingConnections = Max(@ - 1, 0)]
  IN  callback(s2, r, owner, e)

\* the one-shot listener host.connect registered
listener(st, r, guest, owner, event) ==
  LET s1 == negotiateConnection(st, r, guest, event)
      e == Len(s1.endpoints)
      s2 == [s1 EXCEPT
               !.records[r].pendingConnections = Max(@ - 1, 0),
               !.records[r].connectionListeners[guest] = Without(@, owner)]
  IN  callback(s2, r, owner, e)

RECURSIVE runListeners(_, _, _, _, _)
\* the loop goes on after a listener has run and taken st to s1: the
\* iteration of a Set is live, the listeners added meanwhile are visited
\* after the rest
nextListeners(st, s1, r, guest, event, rest) ==
  runListeners(s1, r, guest, event,
               rest \o Added(s1.records[r].connectionListeners[guest],
                             Range(st.records[r].connectionListeners[guest])))

\* the first listener consumes the event
runListeners_FirstOnly(st, r, guest, event, todo) ==
  IF todo = <<>> THEN st ELSE listener(st, r, guest, Head(todo), event)

\* for (const listener of listeners) listener(event, negotiateConnection):
\* the iteration of a Set is live, a listener deleted before its turn is not
\* visited and one added while the loop runs is visited at the end
runListeners(st, r, guest, event, todo) ==
  IF todo = <<>> THEN st
  ELSE IF Head(todo) \notin Range(st.records[r].connectionListeners[guest])
    THEN runListeners(st, r, guest, event, Tail(todo))
  ELSE nextListeners(st, listener(st, r, guest, Head(todo), event),
                     r, guest, event, Tail(todo))

RECURSIVE dispatchGuests(_, _, _, _)
\* the loop goes on after the listeners of a guest have run and taken st to
\* s1: the iteration of a Map is live, the guests added meanwhile are
\* visited after the rest
nextGuests(st, s1, r, event, rest) ==
  dispatchGuests(s1, r, event,
                 rest \o Added(s1.records[r].guestOrder,
                               Range(st.records[r].guestOrder)))

\* for (const [guest, listeners] of connectionListeners): the iteration of
\* a Map is live, a guest added while the loop runs is visited at the end
dispatchGuests(st, r, event, guestsLeft) ==
  IF guestsLeft = <<>> THEN st
  ELSE LET guest == Head(guestsLeft) IN
       IF guest \in Iframes /\ ~isValidTarget(guest, event)
         THEN dispatchGuests(st, r, event, Tail(guestsLeft))
         ELSE nextGuests(st,
                runListeners(st, r, guest, event,
                             st.records[r].connectionListeners[guest]),
                r, event, Tail(guestsLeft))

\* mainListener of record r: an event without data, source or origin makes
\* it throw; a handshake request is dispatched; anything else is left alone
mainListener(st, r, event) ==
  IF \/ event.data.action = Missing
     \/ event.source = Missing
     \/ event.origin = Missing
    THEN [st EXCEPT !.errors = @ \cup {"unknown message type"}]
  ELSE IF event.data.action = HANDSHAKE_REQUEST
    THEN dispatchGuests(st, r, event, st.records[r].guestOrder)
  ELSE st

RECURSIVE dispatchEvent(_, _, _)
\* the target dispatches a message event to the host listeners subscribed
\* on it, in subscription order; one removed meanwhile is not called
dispatchEvent(st, event, r) ==
  IF r > Len(st.records) THEN st
  ELSE IF st.records[r].subscribed
    THEN dispatchEvent(mainListener(st, r, event), event, r + 1)
  ELSE dispatchEvent(st, event, r + 1)

Init ==
  /\ hosts = [t \in Targets |-> 0]
  /\ records = <<>>
  /\ endpoints = <<>>
  /\ minted = 0
  /\ callers = <<>>
  /\ serves = <<>>
  /\ msgs = {}
  /\ calls = <<>>
  /\ log = EmptyBag
  /\ guests = [w \in Windows |-> NoAttempt]
  /\ reclosed = {}
  /\ elapsed = [w \in Windows |-> 0]
  /\ errors = {}
  /\ direct = <<>>
\* ------------------------------------------------------------------- rpc
\* the origin of the document in a window, which the browser stamps on the
\* messages it posts
WindowOrigin(w) ==
  IF w = HostWindow THEN HostOrigin ELSE IF w = "G1" THEN "o1" ELSE "o2"

\* isTrustedRemote(event) of helpers.ts: the peers of this model are trusted
isTrustedRemote(event) == event.source \in Windows \cup {HostWindow}

\* JSON.parse(JSON.stringify(args)) of an argument array: undefined and NaN
\* elements become null
cloneArgs(args) ==
  [i \in DOMAIN args |->
     IF args[i].t \in {"undefined", "nan"} THEN NullV ELSE args[i]]

\* JSON.parse(JSON.stringify(result)): undefined makes JSON.parse throw a
\* SyntaxError, NaN becomes null
cloneResult(result) ==
  IF result.t = "undefined" THEN [threw |-> TRUE, value |-> SyntaxError]
  ELSE IF result.t = "nan" THEN [threw |-> FALSE, value |-> NullV]
  ELSE [threw |-> FALSE, value |-> result]

\* get(schema, methodName)(...args) for the functions of the schemas:
\* add: (a, b) => a + b, noop: () => {}, boom: () => { throw new Error() }
invoke(methodName, args) ==
  IF methodName = "boom" THEN [threw |-> TRUE, value |-> ThrownError]
  ELSE IF methodName = "noop" THEN [threw |-> FALSE, value |-> Undefined]
  ELSE IF Len(args) >= 2 /\ \A i \in 1..2 : args[i].t \in {"num", "null"}
    THEN [threw |-> FALSE, value |-> Num(args[1].n + args[2].n)]
  ELSE [threw |-> FALSE, value |-> NaN]

\* method paths the schema of a context exposes
LocalMethods(ctx) == IF ctx = HostWindow THEN HostMethods ELSE GuestMethods

\* the try/catch of handleCall: the response payload for a request
callOutcome(methodName, data) ==
  LET payload == [Payload EXCEPT !.action = RPC_RESOLVE,
                                 !.callID = data.callID,
                                 !.callName = data.callName,
                                 !.connectionID = data.connectionID]
      ran == invoke(methodName, data.args)
      cloned == cloneResult(ran.value)
  IN  IF ran.threw THEN [payload EXCEPT !.error = ran.value]
      ELSE IF cloned.threw THEN [payload EXCEPT !.error = cloned.value]
      ELSE [payload EXCEPT !.result = cloned.value]

\* the connection identifier of the request is not compared
callAccepted_AnyConnection(st, e, methodName, event) ==
  /\ event.data.action = RPC_REQUEST
  /\ isTrustedRemote(event)
  /\ event.data.callID # 0 /\ event.data.callName # ""
  /\ event.data.callName = methodName

\* whether handleCall of endpoint e for methodName answers the event
callAccepted(st, e, methodName, event) ==
  /\ event.data.action = RPC_REQUEST
  /\ isTrustedRemote(event)
  /\ event.data.callID # 0 /\ event.data.callName # ""
  /\ event.data.callName = methodName
  /\ event.data.connectionID = st.endpoints[e].id

\* registerLocalMethods' handleCall of endpoint e for methodName: the bound
\* function runs and the response is posted to the event's source
handleCall(st, e, methodName, event) ==
  IF ~callAccepted(st, e, methodName, event) THEN st
  ELSE [st EXCEPT
          !.log = @ (+) SetToBag({[ep |-> e, callName |-> methodName,
                                    args |-> event.data.args,
                                    callID |-> event.data.callID]}),
          !.msgs = @ \cup {[to |-> event.source,
                            source |-> st.endpoints[e].ctx,
                            origin |-> WindowOrigin(st.endpoints[e].ctx),
                            data |-> callOutcome(methodName, event.data)]}]

\* the call identifier of the response is not compared
responseAccepted_AnyCall(st, c, event) ==
  /\ isTrustedRemote(event)
  /\ event.data.callID # 0 /\ event.data.callName # ""
  /\ event.data.callName = st.calls[c].callName
  /\ event.data.connectionID = st.endpoints[st.calls[c].ep].id

\* whether handleResponse of call c takes the event as its response
responseAccepted(st, c, event) ==
  /\ isTrustedRemote(event)
  /\ event.data.callID # 0 /\ event.data.callName # ""
  /\ event.data.callName = st.calls[c].callName
  /\ event.data.connectionID = st.endpoints[st.calls[c].ep].id
  /\ event.data.callID = st.calls[c].callID

\* createRPC's handleResponse of call c: resolve or reject settles the
\* promise once
handleResponse(st, c, event) ==
  IF ~responseAccepted(st, c, event) \/ st.calls[c].state # "pending" THEN st
  ELSE IF event.data.action = RPC_RESOLVE
    THEN [st EXCEPT !.calls[c].state = "fulfilled",
                    !.calls[c].value = event.data.result]
  ELSE IF event.data.action = RPC_REJECT
    THEN [st EXCEPT !.calls[c].state = "rejected",
                    !.calls[c].value = event.data.error]
  ELSE st

\* uuidv4() for a call
NewCallID(st) == Len(st.calls) + 1

\* the proxy createRPC made for callName on endpoint e, called with args
rpc(st, e, callName, args) ==
  LET ep == st.endpoints[e]
      callID == NewCallID(st)
      payload == [Payload EXCEPT !.action = RPC_REQUEST,
                                 !.args = cloneArgs(args),
                                 !.callID = callID,
                                 !.callName = callName,
                                 !.connectionID = ep.id]
  IN  [st EXCEPT
         !.calls = Append(@, [ep |-> e, callName |-> callName, args |-> args,
                              callID |-> callID, listening |-> TRUE,
                              state |-> "pending", value |-> NullV]),
         !.msgs = @ \cup {[to |-> ep.source, source |-> ep.ctx,
                           origin |-> WindowOrigin(ep.ctx),
                           data |-> payload]}]

\* guest.ts handleHandshakeResponse in window w, whose target is the parent
handleHandshakeResponse(st, w, event) ==
  IF event.data.action # HANDSHAKE_REPLY \/ event.source # HostWindow THEN st
  ELSE LET e == Len(st.endpoints) + 1 IN
       [st EXCEPT
          !.endpoints = Append(@,
            [side |-> "guest", ctx |-> w, id |-> event.data.connectionID,
             rec |-> 0, guest |-> Null, source |-> event.source,
             origin |-> event.origin, event |-> event.no,
             remote |-> event.data.methods, local |-> TRUE]),
          !.guests[w].connected = TRUE,
          !.guests[w].promise =
             IF @ = "pending" THEN "resolved" ELSE @,
          !.guests[w].connection =
             IF st.guests[w].promise = "pending" THEN e ELSE @]

RECURSIVE runMethodListeners(_, _, _, _)
\* the handleCall listeners registerLocalMethods subscribed for endpoint e,
\* one per method path
runMethodListeners(st, e, event, methods) ==
  IF methods = {} THEN st
  ELSE LET m == CHOOSE x \in methods : TRUE
       IN  runMethodListeners(handleCall(st, e, m, event), e, event,
                              methods \ {m})

RECURSIVE runCallListeners(_, _, _, _)
\* the handleCall listeners subscribed in context ctx, for each endpoint
\* that has not unregistered them
runCallListeners(st, ctx, event, e) ==
  IF e > Len(st.endpoints) THEN st
  ELSE IF st.endpoints[e].ctx = ctx /\ st.endpoints[e].local
    THEN runCallListeners(
           runMethodListeners(st, e, event, LocalMethods(ctx)),
           ctx, event, e + 1)
  ELSE runCallListeners(st, ctx, event, e + 1)

RECURSIVE runResponseListeners(_, _, _, _)
\* the handleResponse listeners subscribed in context ctx
runResponseListeners(st, ctx, event, c) ==
  IF c > Len(st.calls) THEN st
  ELSE IF st.endpoints[st.calls[c].ep].ctx = ctx /\ st.calls[c].listening
    THEN runResponseListeners(handleResponse(st, c, event), ctx, event, c + 1)
  ELSE runResponseListeners(st, ctx, event, c + 1)

\* a message event in context ctx reaches every listener subscribed there
deliver(st, ctx, event) ==
  LET s1 == IF ctx = HostWindow THEN dispatchEvent(st, event, 1) ELSE st
      s2 == IF ctx \in Windows /\ s1.guests[ctx].listening
              THEN handleHandshakeResponse(s1, ctx, event)
              ELSE s1
      s3 == runCallListeners(s2, ctx, event, 1)
  IN  runResponseListeners(s3, ctx, event, 1)

\* ---------------------------------------------------------------- actions
\* The generator of serve() resumes in a microtask of the host's event
\* loop.  Until it has, no other task (a message event) runs there, and
\* application code runs only as the continuation of a connect() promise
\* resolved earlier in the same dispatch.
TaskMayRun(ctx) ==
  ctx = HostWindow => \A s \in DOMAIN serves : serves[s].pc # "resolved"

AppMayRun(ctx) ==
  ctx = HostWindow =>
    \A s \in DOMAIN serves : serves[s].pc = "resolved" => serves[s].racing

\* connect(guest, schema) of the host: the record of the window, one
\* host.connect, and a promise the callback resolves
Connect(guest) ==
  /\ AppMayRun(HostWindow)
  /\ Len(callers) < MaxConnect
  /\ LET s1 == findOrCreateHostFor(State, HostWindow)
         r == s1.hosts[HostWindow]
         n == Len(callers) + 1
         s2 == hostConnect(s1, r, guest, [kind |-> "connect", n |-> n])
     IN  Commit([s2 EXCEPT !.callers =
                   Append(@, [host |-> r, guest |-> guest, connection |-> 0])])

\* serve(hostTarget, schema), which the application calls once: the generator
\* is created suspended at its start
Serve ==
  /\ AppMayRun(HostWindow)
  /\ serves = <<>>
  /\ LET s1 == findOrCreateHostFor(State, HostWindow)
     IN  Commit([s1 EXCEPT !.serves =
                   Append(@, [server |-> s1.hosts[HostWindow],
                              isStopped |-> FALSE, pc |-> "suspended",
                              queue |-> 0, value |-> 0, racing |-> FALSE,
                              yielded |-> <<>>])])

\* connectionGenerator resumed at the top of its loop: it ends when stopped,
\* else it registers a pending handshake for the guest null and awaits it
generatorRun(st, s) ==
  IF st.serves[s].isStopped
    THEN [st EXCEPT !.serves[s].pc = "done", !.serves[s].queue = 0]
    ELSE [hostConnect(st, st.serves[s].server, Null,
                      [kind |-> "serve", n |-> s])
            EXCEPT !.serves[s].pc = "awaiting"]

\* the consumer calls connections.next(): a suspended generator runs at
\* once, a running one queues the request
Pull(s) ==
  /\ s \in DOMAIN serves
  /\ AppMayRun(HostWindow)
  /\ serves[s].pc # "done"
  /\ serves[s].queue < MaxPulls
  /\ LET s1 == [State EXCEPT !.serves[s].queue = @ + 1]
     IN  Commit(IF serves[s].pc = "suspended" THEN generatorRun(s1, s) ELSE s1)

\* the awaited promise has resolved: the generator resumes and yields the
\* connection to the oldest request, then serves the next queued one
Yield(s) ==
  /\ s \in DOMAIN serves
  /\ serves[s].pc = "resolved"
  /\ LET s1 == [State EXCEPT
                  !.serves[s].yielded = Append(@, serves[s].value),
                  !.serves[s].value = 0,
                  !.serves[s].racing = FALSE,
                  !.serves[s].queue = @ - 1,
                  !.serves[s].pc = "suspended"]
     IN  Commit(IF s1.serves[s].queue > 0 THEN generatorRun(s1, s) ELSE s1)

\* the stop() of a serve() handle
Stop(s) ==
  /\ s \in DOMAIN serves
  /\ AppMayRun(HostWindow)
  /\ Commit(stop([State EXCEPT !.serves[s].isStopped = TRUE],
                 serves[s].server, TRUE))

\* a handshake request from window source with the given origin arrives at
\* the host window
HandshakeRequest(source, origin) ==
  LET event == [source |-> source, origin |-> origin, no |-> minted + 1,
                data |-> [Payload EXCEPT !.action = HANDSHAKE_REQUEST,
                                         !.methods = GuestMethods]]
      st == deliver(State, HostWindow, event)
  IN  /\ TaskMayRun(HostWindow)
      /\ \E r \in DOMAIN records : records[r].subscribed
      /\ st.minted <= MaxConn
      /\ Commit(st)

\* connections the host application holds: resolved by connect(), or
\* yielded by serve()
HostHeld ==
  ({callers[c].connection : c \in DOMAIN callers}
    \cup UNION {Range(serves[s].yielded) : s \in DOMAIN serves}) \ {0}

\* connections the application in guest window w holds: the one its
\* connect() promise resolved with
GuestHeld == {guests[w].connection : w \in Windows} \ {0}

\* the application calls close() on a connection it holds
Close(e) ==
  /\ e \in DOMAIN endpoints
  /\ e \in HostHeld \cup GuestHeld
  /\ AppMayRun(endpoints[e].ctx)
  /\ Commit(close(State, e))

\* the application calls close() again on a connection it has closed
\* before; the history variable records that this happened
Reclose(e) ==
  /\ e \in HostHeld \cup GuestHeld
  /\ AppMayRun(endpoints[e].ctx)
  /\ ~endpoints[e].local
  /\ Commit([close(State, e) EXCEPT
               !.reclosed = @ \cup {endpoints[e].side}])

\* guest.ts connect(schema) in window w: the reply listener is subscribed,
\* the retry interval and the timeout are started
GuestConnect(w) ==
  /\ guests[w].promise = "none"
  /\ Commit([State EXCEPT !.guests[w] =
               [listening |-> TRUE, connected |-> FALSE, interval |-> TRUE,
                timeout |-> TRUE, promise |-> "pending", connection |-> 0]])

\* a posted message is delivered to the context it was posted to
Deliver(m) ==
  /\ m \in msgs
  /\ TaskMayRun(m.to)
  /\ Commit(deliver([State EXCEPT !.msgs = @ \ {m}], m.to,
                    [source |-> m.source, origin |-> m.origin, no |-> 0,
                     data |-> m.data]))

\* argument lists the applications call a remote method with
ArgLists(callName) ==
  IF callName = "add"
    THEN {<<Num(2), Num(3)>>}
    ELSE {<<>>}

\* the application calls connection.remote[callName](...args) on a
\* connection it holds
Call(e, callName, args) ==
  /\ e \in HostHeld \cup GuestHeld
  /\ AppMayRun(endpoints[e].ctx)
  /\ callName \in endpoints[e].remote
  /\ Len(calls) < MaxCalls
  /\ Commit(rpc(State, e, callName, args))

Next ==
  \/ \E g \in Iframes : Connect(g)
  \/ Serve
  \/ \E s \in DOMAIN serves : Pull(s)
  \/ \E s \in DOMAIN serves : Yield(s)
  \/ \E s \in DOMAIN serves : Stop(s)
  \/ \E ev \in RequestEvents : HandshakeRequest(ev[1], ev[2])
  \/ \E e \in DOMAIN endpoints : Close(e)

Spec == Init /\ [][Next]_vars
\* ---------------------------------------------------------- the RPC layer
\* Two connect(F1) callers and the guest's connect() in F1's document, one
\* handshake request answered by both callers, both replies delivered: the
\* host holds two connections, the guest holds the one its promise resolved
\* with and has wired the other as well.
Established ==
  LET blank == [hosts |-> [t \in Targets |-> 0], records |-> <<>>,
                endpoints |-> <<>>, minted |-> 0, callers |-> <<>>,
                serves |-> <<>>, msgs |-> {}, calls |-> <<>>, log |-> EmptyBag,
                guests |-> [w \in Windows |-> NoAttempt], reclosed |-> {},
                elapsed |-> [w \in Windows |-> 0], errors |-> {},
                direct |-> <<>>]
      caller(st, n) ==
        LET s1 == findOrCreateHostFor(st, HostWindow)
        IN  [hostConnect(s1, s1.hosts[HostWindow], "F1",
                         [kind |-> "connect", n |-> n])
               EXCEPT !.callers = Append(@, [host |-> s1.hosts[HostWindow],
                                             guest |-> "F1",
                                             connection |-> 0])]
      s2 == caller(caller(blank, 1), 2)
      s3 == [s2 EXCEPT !.guests["G1"] =
               [listening |-> TRUE, connected |-> FALSE, interval |-> TRUE,
                timeout |-> TRUE, promise |-> "pending", connection |-> 0]]
      s4 == deliver(s3, HostWindow,
                    [source |-> "G1", origin |-> "o1", no |-> 1,
                     data |-> [Payload EXCEPT !.action = HANDSHAKE_REQUEST,
                                              !.methods = GuestMethods]])
      reply(st, id) ==
        LET m == CHOOSE x \in st.msgs : x.data.connectionID = id
        IN  deliver([st EXCEPT !.msgs = @ \ {m}], m.to,
                    [source |-> m.source, origin |-> m.origin, no |-> 0,
                     data |-> m.data])
  IN  reply(reply(s4, 1), 2)

InitRPC ==
  /\ hosts = Established.hosts
  /\ records = Established.records
  /\ endpoints = Established.endpoints
  /\ minted = Established.minted
  /\ callers = Established.callers
  /\ serves = Established.serves
  /\ msgs = Established.msgs
  /\ calls = Established.calls
  /\ log = Established.log
  /\ guests = Established.guests
  /\ reclosed = Established.reclosed
  /\ elapsed = Established.elapsed
  /\ errors = Established.errors
  /\ direct = Established.direct

NextRPC ==
  \/ \E m \in msgs : Deliver(m)
  \/ \E e \in DOMAIN endpoints :
       \E callName \in endpoints[e].remote :
         \E args \in ArgLists(callName) : Call(e, callName, args)
  \/ \E e \in DOMAIN endpoints : Close(e)

SpecRPC == InitRPC /\ [][NextRPC]_vars

\* the same, with the second close() of a handle told apart from the first
NextClose ==
  \/ NextRPC
  \/ \E e \in DOMAIN endpoints : Reclose(e)

SpecClose == InitRPC /\ [][NextClose]_vars

\* every operation of the host, the guest and the RPC layer, from the start
NextAll ==
  \/ Next
  \/ NextClose
  \/ \E w \in Windows : GuestConnect(w)

SpecAll == Init /\ [][NextAll]_vars

\* ------------------------------------------------------ the guest's timers
\* the callback of setInterval: once connected it clears the interval, until
\* then it posts the handshake request to the parent window
onInterval(st, w) ==
  IF st.guests[w].connected
    THEN [st EXCEPT !.guests[w].interval = FALSE]
    ELSE [st EXCEPT !.msgs = @ \cup
            {[to |-> HostWindow, source |-> w, origin |-> WindowOrigin(w),
              data |-> [Payload EXCEPT !.action = HANDSHAKE_REQUEST,
                                       !.methods = GuestMethods]]}]

\* the timeout rejects whether or not a reply was processed
onTimeout_Always(st, w) ==
  [st EXCEPT !.guests[w].timeout = FALSE,
             !.guests[w].promise = "rejected"]

\* the callback of setTimeout: reject unless connected; rejecting a settled
\* promise does nothing
onTimeout(st, w) ==
  IF ~st.guests[w].connected
    THEN [st EXCEPT !.guests[w].timeout = FALSE,
                    !.guests[w].promise =
                       IF @ = "pending" THEN "rejected" ELSE @]
    ELSE [st EXCEPT !.guests[w].timeout = FALSE]

\* the interval fires in window w, REQUEST_INTERVAL after its last tick.  A
\* tick due later than the timeout waits for the timeout to have fired; one
\* due at the same time as the timeout may come before or after it.
GuestTick(w) ==
  /\ guests[w].interval
  /\ elapsed[w] < MaxTicks * REQUEST_INTERVAL
  /\ guests[w].timeout
       => elapsed[w] + REQUEST_INTERVAL <= TIMEOUT_INTERVAL
  /\ Commit(onInterval([State EXCEPT !.elapsed[w] = @ + REQUEST_INTERVAL],
                       w))

\* the timeout fires in window w, TIMEOUT_INTERVAL after connect(): not
\* before the ticks that are due earlier
GuestTimeout(w) ==
  /\ guests[w].timeout
  /\ guests[w].interval
       => elapsed[w] + REQUEST_INTERVAL >= TIMEOUT_INTERVAL
  /\ Commit(onTimeout(State, w))

\* guest.ts connect() in the documents of both iframes, the messages they
\* exchange with the parent, and a parent that calls connect(F1) only: the
\* requests of F2's document are never answered
NextGuest ==
  \/ \E w \in Windows : GuestConnect(w)
  \/ \E w \in Windows : GuestTick(w)
  \/ \E w \in Windows : GuestTimeout(w)
  \/ Connect("F1")
  \/ \E m \in msgs : Deliver(m)

SpecGuest == Init /\ [][NextGuest]_vars

\* ------------------------------------------- other traffic on the target
\* message events that are not well-formed handshake requests: one without
\* data, one without source, one without origin, and well-formed events of
\* another action
InboundEvents ==
  {[source |-> "G1", origin |-> "o1", no |-> 0,
    data |-> [Payload EXCEPT !.action = Missing]],
   [source |-> Missing, origin |-> "o1", no |-> 0,
    data |-> [Payload EXCEPT !.action = HANDSHAKE_REQUEST,
                             !.methods = GuestMethods]],
   [source |-> "G1", origin |-> Missing, no |-> 0,
    data |-> [Payload EXCEPT !.action = HANDSHAKE_REQUEST,
                             !.methods = GuestMethods]],
   [source |-> "G1", origin |-> "o1", no |-> 0,
    data |-> [Payload EXCEPT !.action = HANDSHAKE_REPLY,
                             !.connectionID = 1]],
   [source |-> "G1", origin |-> "o1", no |-> 0,
    data |-> [Payload EXCEPT !.action = "other"]]}

\* such an event is dispatched on the host window while a host listener is
\* subscribed there
Inbound(event) ==
  /\ TaskMayRun(HostWindow)
  /\ \E r \in DOMAIN records : records[r].subscribed
  /\ Commit(deliver(State, HostWindow, event))

NextInbound ==
  \/ Next
  \/ \E event \in InboundEvents : Inbound(event)

SpecInbound == Init /\ [][NextInbound]_vars

\* --------------------------------------------------------- disconnect
\* As Established, with a connect(F2) registered before the request of F1's
\* document arrived: the record has answered twice and still has a pending
\* handshake, so it is still subscribed.
Waiting ==
  LET blank == [hosts |-> [t \in Targets |-> 0], records |-> <<>>,
                endpoints |-> <<>>, minted |-> 0, callers |-> <<>>,
                serves |-> <<>>, msgs |-> {}, calls |-> <<>>, log |-> EmptyBag,
                guests |-> [w \in Windows |-> NoAttempt], reclosed |-> {},
                elapsed |-> [w \in Windows |-> 0], errors |-> {},
                direct |-> <<>>]
      caller(st, n, guest) ==
        LET s1 == findOrCreateHostFor(st, HostWindow)
        IN  [hostConnect(s1, s1.hosts[HostWindow], guest,
                         [kind |-> "connect", n |-> n])
               EXCEPT !.callers = Append(@, [host |-> s1.hosts[HostWindow],
                                             guest |-> guest,
                                             connection |-> 0])]
      s2 == caller(caller(caller(blank, 1, "F1"), 2, "F1"), 3, "F2")
      s3 == [s2 EXCEPT !.guests["G1"] =
               [listening |-> TRUE, connected |-> FALSE, interval |-> TRUE,
                timeout |-> TRUE, promise |-> "pending", connection |-> 0]]
      s4 == deliver(s3, HostWindow,
                    [source |-> "G1", origin |-> "o1", no |-> 1,
                     data |-> [Payload EXCEPT !.action = HANDSHAKE_REQUEST,
                                              !.methods = GuestMethods]])
      reply(st, id) ==
        LET m == CHOOSE x \in st.msgs : x.data.connectionID = id
        IN  deliver([st EXCEPT !.msgs = @ \ {m}], m.to,
                    [source |-> m.source, origin |-> m.origin, no |-> 0,
                     data |-> m.data])
  IN  reply(reply(s4, 1), 2)

InitWaiting ==
  /\ hosts = Waiting.hosts
  /\ records = Waiting.records
  /\ endpoints = Waiting.endpoints
  /\ minted = Waiting.minted
  /\ callers = Waiting.callers
  /\ serves = Waiting.serves
  /\ msgs = Waiting.msgs
  /\ calls = Waiting.calls
  /\ log = Waiting.log
  /\ guests = Waiting.guests
  /\ reclosed = Waiting.reclosed
  /\ elapsed = Waiting.elapsed
  /\ errors = Waiting.errors
  /\ direct = Waiting.direct

\* host.disconnect(connectionId) on record r, with an identifier that some
\* connection was given or with one that none was
Disconnect(r, connectionId) ==
  /\ r \in DOMAIN records
  /\ AppMayRun(HostWindow)
  /\ Commit(disconnect(State, r, connectionId))

NextDisconnect ==
  \/ NextRPC
  \/ \E r \in DOMAIN records :
       \E connectionId \in 1..(minted + 1) : Disconnect(r, connectionId)

SpecDisconnect == InitWaiting /\ [][NextDisconnect]_vars

\* ------------------------------------------- callbacks that connect again
\* host.connect(guest, schema, callback) called on the record of the host
\* window with a callback of the caller's own: next is the guest the
\* callback calls host.connect for, NoGuest when it calls nothing
HostConnect(guest, next) ==
  /\ AppMayRun(HostWindow)
  /\ Len(direct) < MaxDirect
  /\ LET s1 == findOrCreateHostFor(State, HostWindow)
         r == s1.hosts[HostWindow]
         n == Len(direct) + 1
         s2 == hostConnect(s1, r, guest, [kind |-> "direct", n |-> n])
     IN  Commit([s2 EXCEPT !.direct =
                   Append(@, [host |-> r, guest |-> guest, next |-> next,
                              connection |-> 0])])

\* the host registers handshakes through host.connect and through the
\* public connect(), and handshake requests arrive
NextReentrant ==
  \/ \E guest \in GuestKeys :
       \E next \in GuestKeys \cup {NoGuest} : HostConnect(guest, next)
  \/ \E g \in Iframes : Connect(g)
  \/ \E ev \in RequestEvents : HandshakeRequest(ev[1], ev[2])

SpecReentrant == Init /\ [][NextReentrant]_vars
\* ----------------------------------------------------------------- claims
HostEndpoints == {e \in DOMAIN endpoints : endpoints[e].side = "host"}

\* C1: the connections one host record negotiated carry pairwise different
\* identifiers, and a connection that has not been closed is still the
\* entry stored under its identifier in the record's connection map.
C1_UniqueConnectionIDs ==
  /\ \A e1, e2 \in HostEndpoints :
       (e1 # e2 /\ endpoints[e1].rec = endpoints[e2].rec)
         => endpoints[e1].id # endpoints[e2].id
  /\ \A e \in HostEndpoints :
       endpoints[e].local
         => [id |-> endpoints[e].id, ep |-> e]
              \in records[endpoints[e].rec].connections

\* one record has negotiated two connections, closed one and keeps the other
C1_Witness ==
  \E e1, e2 \in HostEndpoints :
    /\ e1 # e2
    /\ endpoints[e1].rec = endpoints[e2].rec
    /\ ~endpoints[e1].local
    /\ endpoints[e2].local
    /\ records[endpoints[e2].rec].connections
         = {[id |-> endpoints[e2].id, ep |-> e2]}
\* A handshake request that finds no pending handshake to run changes
\* nothing; one that finds some mints an identifier for each.  The steps of
\* HandshakeRequest that change the state are thus among those that change
\* minted, and the formulas below look at these.
\* two connect() calls for iframe g wait in the same subscribed record
BothPending(c1, c2, g) ==
  /\ c1 # c2
  /\ callers[c1].guest = g /\ callers[c2].guest = g
  /\ callers[c1].connection = 0 /\ callers[c2].connection = 0
  /\ callers[c1].host = callers[c2].host
  /\ records[callers[c1].host].subscribed

\* C6: when two connect() calls wait for the same iframe, one handshake
\* request from that iframe's document resolves both promises, with two
\* different connections that carry two different identifiers.
C6_TwoCallersOneRequest ==
  [][\A g \in Iframes : \A c1, c2 \in DOMAIN callers :
       (BothPending(c1, c2, g)
          /\ minted' # minted
          /\ HandshakeRequest(contentWindow(g), srcOrigin(g)))
       => /\ callers'[c1].connection # 0
          /\ callers'[c2].connection # 0
          /\ callers'[c1].connection # callers'[c2].connection
          /\ endpoints'[callers'[c1].connection].id
               # endpoints'[callers'[c2].connection].id]_vars

\* both connect() promises were resolved by the same handshake request
C6_Witness ==
  \E c1, c2 \in DOMAIN callers :
    /\ c1 # c2
    /\ callers[c1].guest = callers[c2].guest
    /\ callers[c1].connection # 0 /\ callers[c2].connection # 0
    /\ endpoints[callers[c1].connection].event
         = endpoints[callers[c2].connection].event
    /\ endpoints[callers[c1].connection].id
         # endpoints[callers[c2].connection].id

\* whether a request with this source and origin is dispatched to the
\* pending handshakes registered for the guest key
Matches(guest, source, origin) ==
  guest \in Iframes =>
    (origin = srcOrigin(guest) /\ source = contentWindow(guest))

\* C7 as stated: one handshake request gives at most one connection for a
\* given guest of a host record.
C7_AtMostOnePerGuest ==
  \A e1, e2 \in HostEndpoints :
    (e1 # e2 /\ endpoints[e1].rec = endpoints[e2].rec
       /\ endpoints[e1].guest = endpoints[e2].guest)
    => endpoints[e1].event # endpoints[e2].event

\* C7 amended: a handshake request is answered by every pending handshake
\* of every guest it matches: in each subscribed record it makes one
\* connection per pending handshake of such a guest and removes them all,
\* makes none for the other guests, and one reply is posted per connection.
C7_OnePerPendingHandshake ==
  [][\A ev \in RequestEvents :
       (minted' # minted /\ HandshakeRequest(ev[1], ev[2]))
       => /\ \A r \in DOMAIN records : \A g \in GuestKeys :
               LET made == {e \in DOMAIN endpoints' \ DOMAIN endpoints :
                              /\ endpoints'[e].rec = r
                              /\ endpoints'[e].guest = g}
               IN  IF records[r].subscribed /\ Matches(g, ev[1], ev[2])
                     THEN /\ Cardinality(made)
                               = Len(records[r].connectionListeners[g])
                          /\ records'[r].connectionListeners[g] = <<>>
                     ELSE made = {}
          /\ Cardinality(msgs' \ msgs) = Len(endpoints') - Len(endpoints)
          /\ \A m \in msgs' \ msgs :
               m.data.action = HANDSHAKE_REPLY /\ m.to = ev[1]]_vars

\* one request made two connections for the same guest of a record, and
\* both replies are on their way
C7_Witness ==
  \E e1, e2 \in HostEndpoints :
    /\ e1 # e2
    /\ endpoints[e1].rec = endpoints[e2].rec
    /\ endpoints[e1].guest = endpoints[e2].guest
    /\ endpoints[e1].event = endpoints[e2].event
    /\ \A e \in {e1, e2} :
         \E m \in msgs : /\ m.data.action = HANDSHAKE_REPLY
                         /\ m.data.connectionID = endpoints[e].id
    /\ records[endpoints[e1].rec].connectionListeners[endpoints[e1].guest]
         = <<>>

\* C8: a handshake request whose origin or source differs from an iframe's
\* leaves that iframe's pending handshakes registered in every record,
\* creates no connection for the iframe and resolves none of the connect()
\* promises waiting for it; when no other guest has a pending handshake
\* either, no reply is posted at all.
C8_MismatchNotNegotiated ==
  [][\A ev \in RequestEvents : \A f \in Iframes :
       ((ev[2] # srcOrigin(f) \/ ev[1] # contentWindow(f))
          /\ minted' # minted
          /\ HandshakeRequest(ev[1], ev[2]))
       => /\ \A r \in DOMAIN records :
               records'[r].connectionListeners[f]
                 = records[r].connectionListeners[f]
          /\ \A e \in DOMAIN endpoints' \ DOMAIN endpoints :
               endpoints'[e].guest # f
          /\ \A c \in DOMAIN callers :
               callers[c].guest = f => callers'[c] = callers[c]
          /\ (\A r \in DOMAIN records : \A g \in GuestKeys \ {f} :
                records[r].connectionListeners[g] = <<>>)
             => (msgs' = msgs /\ endpoints' = endpoints)]_vars

\* connect(F1) is still pending and registered, with no connection made for
\* F1, after a request from F2's document resolved a later connect(F2)
C8_Witness ==
  \E c1, c2 \in DOMAIN callers :
    /\ c1 < c2
    /\ callers[c1].guest = "F1" /\ callers[c1].connection = 0
    /\ callers[c2].guest = "F2" /\ callers[c2].connection # 0
    /\ callers[c1].host = callers[c2].host
    /\ [kind |-> "connect", n |-> c1]
         \in Range(records[callers[c1].host].connectionListeners["F1"])
    /\ \A e \in HostEndpoints : endpoints[e].guest # "F1"

\* what the function bound at the path of call c does with the arguments
\* the caller passed
Bound(c) == invoke(calls[c].callName, calls[c].args)

\* C2: a call of a remote proxy invokes the peer's function bound at that
\* path once at most, with arguments equal to the caller's, and when that
\* function returns, the caller's promise is never rejected and is
\* fulfilled only with a value equal to what the function returned.
C2_RoundTrip ==
  /\ \A l \in BagToSet(log) :
       /\ CopiesIn(l, log) = 1
       /\ \E c \in DOMAIN calls :
            /\ calls[c].callID = l.callID
            /\ calls[c].callName = l.callName
            /\ calls[c].args = l.args
            /\ endpoints[l.ep].ctx = endpoints[calls[c].ep].source
            /\ endpoints[l.ep].id = endpoints[calls[c].ep].id
  /\ \A c \in DOMAIN calls :
       ~Bound(c).threw
         => /\ calls[c].state # "rejected"
            /\ calls[c].state = "fulfilled"
                 => calls[c].value = Bound(c).value

\* C3: when the function bound at the path of a call throws, the response
\* carries the error, and the caller's promise is never fulfilled: it is
\* rejected, with that error.
C3_ThrowRejects ==
  /\ \A m \in msgs : \A c \in DOMAIN calls :
       (/\ m.data.action \in {RPC_RESOLVE, RPC_REJECT}
        /\ m.data.callID = calls[c].callID
        /\ Bound(c).threw)
       => m.data.error = Bound(c).value
  /\ \A c \in DOMAIN calls :
       Bound(c).threw
         => /\ calls[c].state # "fulfilled"
            /\ calls[c].state = "rejected"
                 => calls[c].value = Bound(c).value

\* whether the response is the one of call c, heard in the context c was
\* made in
IsResponseOf(m, c) ==
  /\ m.to = endpoints[calls[c].ep].ctx
  /\ m.data.callName = calls[c].callName
  /\ m.data.connectionID = endpoints[calls[c].ep].id
  /\ m.data.callID = calls[c].callID

\* C4: the delivery of a response message changes at most one call, the
\* one whose method name, connection identifier and call identifier equal
\* the response's; every other call stays as it was, pending and listening
\* if it was so.
C4_ResponseSettlesOneCall ==
  [][\A m \in msgs :
       (m.data.action \in {RPC_RESOLVE, RPC_REJECT} /\ m \notin msgs'
          /\ Deliver(m))
       => /\ DOMAIN calls' = DOMAIN calls
          /\ \A c \in DOMAIN calls :
               ~IsResponseOf(m, c) => calls'[c] = calls[c]
          /\ Cardinality({c \in DOMAIN calls : calls'[c] # calls[c]}) <= 1
          /\ \A c \in DOMAIN calls :
               (IsResponseOf(m, c) /\ calls[c].state = "pending"
                  /\ calls[c].listening)
               => calls'[c].state # "pending"]_vars

\* two calls of the same method overlap on one connection; the response of
\* one has settled it and the other is still pending and listening
C4_Witness ==
  \E c1, c2 \in DOMAIN calls :
    /\ c1 # c2
    /\ calls[c1].ep = calls[c2].ep
    /\ calls[c1].callName = calls[c2].callName
    /\ calls[c1].state = "fulfilled"
    /\ calls[c2].state = "pending" /\ calls[c2].listening
    /\ \E l \in BagToSet(log) : l.callID = calls[c2].callID

\* the connections of the context the request arrives in that still listen
\* for calls and whose identifier and method paths the request names
Addressed(m) ==
  {e \in DOMAIN endpoints :
     /\ endpoints[e].ctx = m.to
     /\ endpoints[e].local
     /\ endpoints[e].id = m.data.connectionID
     /\ m.data.callName \in LocalMethods(m.to)}

\* C5: the delivery of an RPC request invokes the function bound at the
\* named path of the connection the request names, once, and no function of
\* another connection or path; one response is posted for it, to the
\* sender.  A request naming no listening connection invokes nothing.
C5_NoCrossConnectionLeak ==
  [][\A m \in msgs :
       (m.data.action = RPC_REQUEST /\ m \notin msgs' /\ Deliver(m))
       => /\ Cardinality(Addressed(m)) <= 1
          /\ log' = log (+) SetToBag({[ep |-> e,
                                        callName |-> m.data.callName,
                                        args |-> m.data.args,
                                        callID |-> m.data.callID] :
                                       e \in Addressed(m)})
          /\ Cardinality(msgs' \ msgs) = Cardinality(Addressed(m))
          /\ \A x \in msgs' \ msgs :
               /\ x.to = m.source
               /\ x.data.callID = m.data.callID
               /\ x.data.connectionID = m.data.connectionID]_vars

\* a function of one connection was invoked and its response posted while
\* another connection exposing the same paths listens in the same context
\* and was not invoked
C5_Witness ==
  \E l \in BagToSet(log) : \E e2 \in DOMAIN endpoints :
    /\ e2 # l.ep
    /\ endpoints[e2].ctx = endpoints[l.ep].ctx
    /\ endpoints[e2].local /\ endpoints[l.ep].local
    /\ CopiesIn(l, log) = 1
    /\ \A k \in BagToSet(log) : k.callID = l.callID => k = l
    /\ \E x \in msgs : /\ x.data.action = RPC_RESOLVE
                       /\ x.data.callID = l.callID

\* C9: close() is idempotent on every handle an application holds, open or
\* closed before: a second close() right after the first leaves the state
\* (listeners subscribed, connection maps, everything else) as the first
\* left it, and the first removes no call listener, no response listener
\* and no map entry of another connection.
C9_CloseIdempotent ==
  \A e \in HostHeld \cup GuestHeld :
    LET once == close(State, e)
        twice == close(once, e)
    IN  /\ twice = once
        /\ \A e2 \in DOMAIN endpoints \ {e} :
             once.endpoints[e2] = endpoints[e2]
        /\ \A c \in DOMAIN calls :
             calls[c].ep # e => once.calls[c] = calls[c]
        /\ \A r \in DOMAIN records :
             {x \in once.records[r].connections : x.ep # e}
               = {x \in records[r].connections : x.ep # e}

\* a host-side and a guest-side handle have each been closed twice, and
\* another connection of the record is still open and in its map
C9_Witness ==
  /\ reclosed = {"host", "guest"}
  /\ \E e \in HostEndpoints :
       /\ endpoints[e].local
       /\ [id |-> endpoints[e].id, ep |-> e]
            \in records[endpoints[e].rec].connections

\* the connections negotiated for serve() handle s, in the order the
\* handshakes completed
RECURSIVE Accepted(_, _)
Accepted(s, n) ==
  IF n = 0 THEN <<>>
  ELSE IF /\ endpoints[n].side = "host"
          /\ endpoints[n].guest = Null
          /\ endpoints[n].rec = serves[s].server
    THEN Append(Accepted(s, n - 1), n)
  ELSE Accepted(s, n - 1)

\* C10: the sequence a serve() handle has yielded is the sequence of the
\* handshakes it accepted, in order, less at most the last one; and once
\* stop() has been called nothing more is yielded.
C10_ServeSequence ==
  [][\A s \in DOMAIN serves :
       /\ serves[s].isStopped => serves'[s].yielded = serves[s].yielded
       /\ LET all == Accepted(s, Len(endpoints))
          IN  /\ Len(all) - 1 <= Len(serves[s].yielded)
              /\ Len(serves[s].yielded) <= Len(all)
              /\ serves[s].yielded = SubSeq(all, 1, Len(serves[s].yielded))
    ]_vars
\* what C11 says of the attempt in window w in one state
TimeoutOutcome(w) ==
  /\ (guests[w].promise # "none" /\ ~guests[w].timeout)
       => guests[w].promise \in {"resolved", "rejected"}
  /\ guests[w].promise = "rejected"
       => /\ ~guests[w].timeout
          /\ elapsed[w] + REQUEST_INTERVAL >= TIMEOUT_INTERVAL
  /\ guests[w].promise = "resolved" => guests[w].connected

\* C11: once the timeout of a guest connect() has fired, its promise is
\* settled: rejected if no reply from the parent was processed before, and
\* then not before the retries due within TIMEOUT_INTERVAL were made;
\* resolved with a connection, and never rejected afterwards, if a reply
\* was processed first.
C11_TimeoutOrConnection ==
  [][\A w \in Windows :
       /\ TimeoutOutcome(w)
       /\ TimeoutOutcome(w)'
       /\ guests[w].promise = "resolved"
            => /\ guests'[w].promise = "resolved"
               /\ guests'[w].connection = guests[w].connection
               /\ guests[w].connection # 0
       /\ (guests[w].timeout /\ ~guests'[w].timeout /\ ~guests[w].connected)
            => guests'[w].promise = "rejected"]_vars

\* one attempt was rejected by its timeout with no reply received, the other
\* was resolved by a reply and stayed resolved when its timeout fired
C11_Witness ==
  \E w1, w2 \in Windows :
    /\ guests[w1].promise = "rejected"
    /\ \A e \in DOMAIN endpoints : endpoints[e].ctx # w1
    /\ guests[w2].promise = "resolved"
    /\ ~guests[w2].timeout
    /\ endpoints[guests[w2].connection].ctx = w2
\* the handshake requests window w posts in this step
RequestsPosted(w) ==
  {m \in msgs' \ msgs :
     m.source = w /\ m.data.action = HANDSHAKE_REQUEST}

\* C13: a guest posts a handshake request only while it awaits a reply: not
\* once a reply has been processed, and not at a time later than
\* TIMEOUT_INTERVAL after connect().
C13_RetryBoundedByTimeout ==
  [][\A w \in Windows :
       RequestsPosted(w) # {}
         => /\ ~guests[w].connected
            /\ elapsed'[w] <= TIMEOUT_INTERVAL]_vars

\* the connections wired in guest window w: each registered its
\* local-method and remote-method listeners under its connection identifier
Wired(w) ==
  {e \in DOMAIN endpoints :
     endpoints[e].side = "guest" /\ endpoints[e].ctx = w}

\* C19: one guest connect() wires at most one connection, whatever number of
\* handshake replies its window receives.
C19_OneConnectionPerAttempt ==
  \A w \in Windows : Cardinality(Wired(w)) <= 1

\* C20: a guest connect() that its timeout has rejected is not connected and
\* has wired no connection, in that state and in every later one.
C20_FailedIsTerminal ==
  \A w \in Windows :
    guests[w].promise = "rejected"
      => ~guests[w].connected /\ Wired(w) = {}
\* the connect() calls still waiting
PendingCallers == {c \in DOMAIN callers : callers[c].connection = 0}

\* C12 as stated: while connect() calls are pending on a record, the record
\* is not stopped (it is subscribed and is the one in the process-wide map),
\* and a record whose pending count is zero after a connect() resolved in it
\* has been stopped.
C12_StoppedIffNothingPending ==
  /\ \A c \in PendingCallers :
       /\ records[callers[c].host].subscribed
       /\ hosts[HostWindow] = callers[c].host
  /\ \A c \in DOMAIN callers \ PendingCallers :
       records[callers[c].host].pendingConnections = 0
         => ~records[callers[c].host].subscribed

\* the connections made in record r by this step
MadeIn(r) ==
  {e \in DOMAIN endpoints' \ DOMAIN endpoints : endpoints'[e].rec = r}

\* the connect() calls of record r this step resolves
ResolvedIn(r) ==
  {c \in PendingCallers : callers[c].host = r /\ callers'[c].connection # 0}

\* C12 amended: a handshake request resolves each connect() it satisfies
\* with the one connection negotiated for that call; the record is stopped
\* (unsubscribed, the target's map entry deleted) exactly when the callback
\* of a connect() finds the pending count at zero, which is when the last
\* pending handshake the request satisfied in the record was a connect()'s,
\* and stopping closes no connection.  Otherwise the record stays
\* subscribed.  A connect() still pending stays registered in its record,
\* and the record stays subscribed unless it was stopped through a serve()
\* handle.
C12_AutoStopAtZero ==
  [][/\ \A ev \in RequestEvents :
          (minted' # minted /\ HandshakeRequest(ev[1], ev[2]))
          => /\ \A r \in DOMAIN records :
                  LET stopped == records[r].subscribed
                                   /\ ~records'[r].subscribed
                  IN  /\ \A c \in ResolvedIn(r) :
                           /\ callers'[c].connection \in MadeIn(r)
                           /\ endpoints'[callers'[c].connection].guest
                                = callers[c].guest
                           /\ \A d \in ResolvedIn(r) \ {c} :
                                callers'[d].connection
                                  # callers'[c].connection
                      /\ stopped
                           <=> /\ records[r].subscribed
                               /\ records'[r].pendingConnections = 0
                               /\ \E c \in ResolvedIn(r) :
                                    \A e \in MadeIn(r) :
                                      e <= callers'[c].connection
                      /\ stopped => hosts'[HostWindow] = 0
             /\ \A e \in DOMAIN endpoints : endpoints'[e] = endpoints[e]
             /\ \A e \in DOMAIN endpoints' \ DOMAIN endpoints :
                  endpoints'[e].local
             /\ (\A r \in DOMAIN records :
                   records'[r].subscribed = records[r].subscribed)
                => hosts' = hosts
     /\ \A c \in DOMAIN callers' :
          callers'[c].connection = 0
          => LET r == callers'[c].host IN
             /\ [kind |-> "connect", n |-> c]
                  \in Range(records'[r].connectionListeners[callers'[c].guest])
             /\ records'[r].pendingConnections > 0
             /\ \/ records'[r].subscribed
                \/ \E s \in DOMAIN serves' :
                     serves'[s].server = r /\ serves'[s].isStopped
    ]_vars

\* two connect() calls of one record were resolved by two requests: the
\* first left the record running for the second, the second stopped it, and
\* both connections are still open
C12_Witness ==
  \E c1, c2 \in DOMAIN callers :
    /\ callers[c1].host = callers[c2].host
    /\ callers[c1].connection # 0 /\ callers[c2].connection # 0
    /\ endpoints[callers[c1].connection].event
         < endpoints[callers[c2].connection].event
    /\ ~records[callers[c1].host].subscribed
    /\ hosts[HostWindow] = 0
    /\ serves = <<>>
    /\ endpoints[callers[c1].connection].local
    /\ endpoints[callers[c2].connection].local
\* C14: an inbound message that lacks data, source or origin, or whose
\* action is not a handshake request, makes the host's listener raise no
\* error and leaves the pending handshakes, the pending counts and the
\* connection maps as they were.
C14_SilentDrop ==
  [][\A event \in InboundEvents :
       Inbound(event)
       => /\ errors' = errors
          /\ records' = records
          /\ endpoints' = endpoints
          /\ msgs' = msgs]_vars
RECURSIVE ListenerCount(_, _)
\* the listeners registered in record r for the guests gs
ListenerCount(r, gs) ==
  IF gs = {} THEN 0
  ELSE LET g == CHOOSE x \in gs : TRUE
       IN  Len(records[r].connectionListeners[g])
             + ListenerCount(r, gs \ {g})

\* the connections negotiated in record r for guest g: one per invocation
\* of a host.connect callback
Negotiated(r, g) ==
  {e \in HostEndpoints : endpoints[e].rec = r /\ endpoints[e].guest = g}

\* C15: in every record the pending count is the number of listeners
\* registered, over all guests, and is not negative; a host.connect has its
\* listener registered exactly as long as no request has satisfied it, and
\* its callback has run once when one has: the connections negotiated for a
\* guest are as many as the satisfied host.connect calls for it.
C15_PendingCountIsListeners ==
  /\ \A r \in DOMAIN records :
       /\ records[r].pendingConnections >= 0
       /\ records[r].pendingConnections = ListenerCount(r, GuestKeys)
       /\ \A g \in GuestKeys :
            Cardinality(Range(records[r].connectionListeners[g]))
              = Len(records[r].connectionListeners[g])
       /\ \A g \in Iframes :
            Cardinality(Negotiated(r, g))
              = Cardinality({c \in DOMAIN callers :
                               /\ callers[c].host = r
                               /\ callers[c].guest = g
                               /\ callers[c].connection # 0})
  /\ \A c \in DOMAIN callers :
       callers[c].connection = 0
         <=> [kind |-> "connect", n |-> c]
               \in Range(records[callers[c].host]
                           .connectionListeners[callers[c].guest])
  /\ \A s \in DOMAIN serves :
       /\ serves[s].pc = "awaiting"
            <=> [kind |-> "serve", n |-> s]
                  \in Range(records[serves[s].server].connectionListeners[Null])
       /\ Cardinality(Negotiated(serves[s].server, Null))
            = Len(serves[s].yielded)
                + (IF serves[s].pc = "resolved" THEN 1 ELSE 0)

\* a record in which one connect() was satisfied while a connect() for
\* another iframe and the handshake of serve() are still pending
C15_Witness ==
  \E r \in DOMAIN records : \E c1, c2 \in DOMAIN callers :
    /\ callers[c1].host = r /\ callers[c2].host = r
    /\ callers[c1].connection # 0
    /\ callers[c2].connection = 0
    /\ records[r].connectionListeners[Null] # <<>>
    /\ records[r].pendingConnections = 2
\* what a state keeps apart from the connection of endpoint e: its own flag,
\* its own response listeners and its own entry in the map are left out
Apart(st, e) ==
  [st EXCEPT
     !.endpoints[e].local = FALSE,
     !.calls = [c \in DOMAIN st.calls |->
                  IF st.calls[c].ep = e
                    THEN [st.calls[c] EXCEPT !.listening = FALSE]
                    ELSE st.calls[c]],
     !.records[st.endpoints[e].rec].connections = {x \in @ : x.ep # e}]

\* C16: close() of an open host-side connection, called directly or through
\* disconnect(connectionID), unsubscribes that connection's local-method
\* listeners and response listeners and removes its entry from the map, and
\* changes nothing else: the listeners and entries of the other
\* connections, the pending handshakes and the pending counts stay.
\* disconnect of an identifier no stored connection has changes nothing.
C16_CloseTouchesOwnOnly ==
  /\ \A e \in HostEndpoints :
       endpoints[e].local
       => /\ close(State, e) = Apart(State, e)
          /\ disconnect(State, endpoints[e].rec, endpoints[e].id)
               = close(State, e)
          /\ ~close(State, e).endpoints[e].local
          /\ \A x \in close(State, e).records[endpoints[e].rec].connections :
               x.ep # e
  /\ \A r \in DOMAIN records : \A connectionId \in 1..(minted + 1) :
       (\A x \in records[r].connections : x.id # connectionId)
         => disconnect(State, r, connectionId) = State

\* one connection of the record was closed and left its map; the other is
\* still in it, still listens for calls, and a call made on it is still
\* pending and listening; the connect(F2) of the record is still pending
C16_Witness ==
  \E e1, e2 \in HostEndpoints :
    /\ endpoints[e1].rec = endpoints[e2].rec
    /\ ~endpoints[e1].local /\ endpoints[e2].local
    /\ records[endpoints[e1].rec].connections
         = {[id |-> endpoints[e2].id, ep |-> e2]}
    /\ \E c \in DOMAIN calls :
         calls[c].ep = e2 /\ calls[c].listening /\ calls[c].state = "pending"
    /\ \E c \in DOMAIN calls : calls[c].ep = e1 /\ ~calls[c].listening
    /\ records[endpoints[e1].rec].pendingConnections = 1
    /\ records[endpoints[e1].rec].connectionListeners["F2"] # <<>>
\* C17: on an open connection the response listeners subscribed are those
\* of the calls still in flight: the listener of a call is unsubscribed once
\* a response has settled the call.
C17_ResponseListenerOneShot ==
  \A e \in DOMAIN endpoints :
    endpoints[e].local
      => {c \in DOMAIN calls : calls[c].ep = e /\ calls[c].listening}
           = {c \in DOMAIN calls : calls[c].ep = e /\ calls[c].state = "pending"}

\* the records whose mainListener is subscribed on target t
Subscribed(t) ==
  {r \in DOMAIN records : records[r].target = t /\ records[r].subscribed}

\* C18: on every target at most one host listener is subscribed, and the
\* process-wide map holds a record for the target exactly when that
\* record's listener is the one subscribed.
C18_OneListenerPerTarget ==
  \A t \in Targets :
    /\ Cardinality(Subscribed(t)) <= 1
    /\ hosts[t] # 0 => Subscribed(t) = {hosts[t]}
    /\ hosts[t] = 0 => Subscribed(t) = {}
\* the calls of connection e whose response listener is subscribed on the
\* message channel
ResponseListeners(e) ==
  {c \in DOMAIN calls : calls[c].ep = e /\ calls[c].listening}

\* C21: a connection whose close() has returned has no listener subscribed
\* on the message channel, neither the listener of its local methods nor a
\* response listener, whatever is invoked on its remote proxy afterwards.
C21_NoListenerAfterClose ==
  \A e \in DOMAIN endpoints :
    ~endpoints[e].local => ResponseListeners(e) = {}
\* the handshakes pending in the records subscribed on the host window
PendingHandshakes ==
  UNION {{<<r, g, i>> : i \in DOMAIN records[r].connectionListeners[g]} :
           <<r, g>> \in {x \in (DOMAIN records) \X GuestKeys :
                           records[x[1]].subscribed}}

====
